---- MODULE Spec2Model ----
(***************************************************************************)
(* Model of the recipe CRUD layer (src/src/index.ts and its earlier        *)
(* variant src/unnamed/part_001) over a Mongoose model of RecipeSchema.    *)
(*                                                                         *)
(* Conventions.                                                            *)
(*   - An optional field is a sequence of length 0 (absent) or 1.          *)
(*   - title / description are sequences of one-character strings, so that *)
(*     the schema's trim setter is computed and not assumed.               *)
(*   - A JavaScript value of unknown type is a record [t, n, s]: its       *)
(*     typeof tag, its numeric value and its string value.                 *)
(*   - An identifier argument is [valid, n]: whether the string has the    *)
(*     ObjectId shape, and which ObjectId it denotes.                      *)
(***************************************************************************)
EXTENDS Integers, Sequences, FiniteSets, TLC

\* ------------------------------------------------------------------ bounds
\* Operations issued in one run, against a reliable storage.
MaxCalls == 3
\* Operations issued in one run, against a storage whose calls may reject.
MaxFaultyCalls == 1

\* Two concurrent invocations: every race here is between two calls.
Callers == {1, 2}

\* -------------------------------------------------------- JavaScript values
Undef == [t |-> "undefined", n |-> 0, s |-> ""]
Num(k) == [t |-> "number", n |-> k, s |-> ""]
Str(x) == [t |-> "string", n |-> 0, s |-> x]

\* JavaScript truthiness of a number, string or undefined value.
Truthy(v) ==
  \/ v.t = "number" /\ v.n # 0
  \/ v.t = "string" /\ v.s # ""

\* ------------------------------------------------------------ schema setters
RECURSIVE TrimStart(_)
TrimStart(s) ==
  IF s = <<>> THEN <<>>
  ELSE IF Head(s) = " " THEN TrimStart(Tail(s))
  ELSE s

RECURSIVE TrimEnd(_)
TrimEnd(s) ==
  IF s = <<>> THEN <<>>
  ELSE IF s[Len(s)] = " " THEN TrimEnd(SubSeq(s, 1, Len(s) - 1))
  ELSE s

\* String.prototype.trim, the setter behind `trim: true`.
Trim(s) == TrimEnd(TrimStart(s))

\* An optional string through the trim setter.
TrimOpt(o) == IF o = <<>> THEN <<>> ELSE <<Trim(o[1])>>

\* ------------------------------------------------------------------ payloads
Ingredient(nm, am) == [name |-> <<nm>>, amount |-> <<am>>]

Spinach == Ingredient("Spinach", "300g")
Eggs == Ingredient("Eggs", "2 units")
Nameless == Ingredient("", "150g")

PrepTime == 45
Portions == 4

EmptyPayload ==
  [title |-> <<>>, description |-> <<>>, ingredients |-> <<>>,
   preparationTime |-> <<>>, portions |-> <<>>, isVegetarian |-> <<>>]

Base(t) ==
  [EmptyPayload EXCEPT !.title = <<t>>, !.ingredients = << <<Spinach>> >>,
                       !.preparationTime = <<PrepTime>>, !.portions = <<Portions>>,
                       !.isVegetarian = <<FALSE>>]

\* Payloads handed to createRecipe.
CreateInputs ==
  { Base(<<"a">>),
    [Base(<<" ", "a">>) EXCEPT !.isVegetarian = <<>>,
                               !.description = << <<"d", " ">> >>],
    [Base(<<"b">>) EXCEPT !.ingredients = << <<Spinach, Eggs>> >>],
    Base(<<" ">>),
    [Base(<<"b">>) EXCEPT !.preparationTime = <<0>>],
    [Base(<<"a">>) EXCEPT !.ingredients = << <<Nameless>> >>],
    [Base(<<"b">>) EXCEPT !.portions = <<>>] }

\* Partial payloads handed to updateRecipe.
UpdateInputs ==
  { EmptyPayload,
    [EmptyPayload EXCEPT !.title = << <<" ", "b">> >>],
    [EmptyPayload EXCEPT !.title = << <<>> >>, !.portions = <<0>>],
    [EmptyPayload EXCEPT !.description = << <<" ", "u">> >>,
                         !.ingredients = << <<Eggs, Nameless>> >>,
                         !.preparationTime = <<0>>, !.isVegetarian = <<TRUE>>] }

\* --------------------------------------------------------------- identifiers
MalformedId == [valid |-> FALSE, n |-> 0]
ObjectId(k) == [valid |-> TRUE, n |-> k]

\* -------------------------------------------------------------------- state
VARIABLES
  impl,        \* which of the two versions of the program runs
  collection,  \* the documents of the recipes collection
  nextId,      \* the next ObjectId the driver generates
  now,         \* the storage clock behind createdAt / updatedAt
  calls,       \* operations issued so far
  pc,          \* per caller: "idle", "awaiting", "returned" or "rejected"
  req,         \* per caller: the operation in flight / last issued
  out,         \* per caller: how the awaited storage call settled
  resp,        \* per caller: the envelope the operation returned
  created,     \* history: [id, data] of every successful createRecipe
  modified,    \* history: ids matched by a successful updateRecipe
  deleted      \* history: ids removed by a successful deleteRecipe

vars ==
  <<impl, collection, nextId, now, calls, pc, req, out, resp,
    created, modified, deleted>>

Impls == {"index.ts", "part_001"}

\* ------------------------------------------------------------- thrown values
Thrown(kind, message, code) == [kind |-> kind, message |-> message, code |-> code]

NoError == Thrown("none", Undef, Undef)

\* mongoose ValidationError: an Error without a code field.
ValidationError == Thrown("Error", Str("Recipe validation failed"), Undef)
\* MongoServerError E11000: an Error whose code is the number 11000.
DuplicateKeyError == Thrown("Error", Str("E11000 duplicate key error"), Num(11000))
\* mongoose CastError for an id that is no ObjectId: an Error without a code.
CastError == Thrown("Error", Str("Cast to ObjectId failed"), Undef)

\* Other values a rejected storage promise can carry: driver and system
\* errors, plain objects, primitives, null / undefined.
Faults ==
  { Thrown("Error", Str("connection refused"), Str("ECONNREFUSED")),
    Thrown("Error", Str("operation failed"), Num(0)),
    Thrown("object", Undef, Num(8000)),
    Thrown("object", Str("rejected"), Undef),
    Thrown("primitive", Undef, Undef),
    Thrown("nullish", Undef, Undef) }

\* ----------------------------------------------------------- storage outcomes
Resolved(d) == [t |-> "doc", docs |-> <<d>>, err |-> NoError]
Absent == [t |-> "null", docs |-> <<>>, err |-> NoError]
Listed(ds) == [t |-> "list", docs |-> ds, err |-> NoError]
Raised(e) == [t |-> "raised", docs |-> <<>>, err |-> e]
Pending == [t |-> "pending", docs |-> <<>>, err |-> NoError]

Settled(o, coll) == [out |-> o, coll |-> coll]

\* ------------------------------------------------------ RecipeSchema / Recipe
DefaultMeat == FALSE

\* isVegetarian: { type: Boolean, default: true }
DefaultVegetarian == TRUE

\* new Recipe(data): setters and defaults applied, _id generated.
NewRecipe(data, id) ==
  [id |-> id,
   title |-> TrimOpt(data.title),
   description |-> TrimOpt(data.description),
   ingredients |-> IF data.ingredients = <<>> THEN <<>> ELSE data.ingredients[1],
   preparationTime |-> data.preparationTime,
   portions |-> data.portions,
   isVegetarian |-> IF data.isVegetarian = <<>> THEN DefaultVegetarian
                    ELSE data.isVegetarian[1],
   createdAt |-> 0,
   updatedAt |-> 0]

\* `required: true` on a String path: present and not the empty string.
RequiredString(o) == o # <<>> /\ o[1] # <<>>
RequiredText(o) == o # <<>> /\ o[1] # ""
\* `required: true` on a Number path: present.
RequiredNumber(o) == o # <<>>

\* Document validation as save() runs it.
Validate(d) ==
  /\ RequiredString(d.title)
  /\ RequiredNumber(d.preparationTime)
  /\ RequiredNumber(d.portions)
  /\ \A i \in 1..Len(d.ingredients) :
       /\ RequiredText(d.ingredients[i].name)
       /\ RequiredText(d.ingredients[i].amount)

NoIndex(coll, d) == TRUE

\* The unique index on title: no other document holds d's title.
UniqueTitle(coll, d) == \A e \in coll : e.id = d.id \/ e.title # d.title

Stamp(d, t) == [d EXCEPT !.createdAt = t, !.updatedAt = t]

\* recipe.save() of a new document.
save(d, coll, t) ==
  IF ~Validate(d) THEN Settled(Raised(ValidationError), coll)
  ELSE IF ~UniqueTitle(coll, d) THEN Settled(Raised(DuplicateKeyError), coll)
  ELSE Settled(Resolved(Stamp(d, t)), coll \cup {Stamp(d, t)})

\* The documents in _id order, as an array.
RECURSIVE ToArray(_)
ToArray(coll) ==
  IF coll = {} THEN <<>>
  ELSE LET d == CHOOSE x \in coll : \A y \in coll : x.id <= y.id
       IN <<d>> \o ToArray(coll \ {d})

\* Recipe.find()
find(coll) == Settled(Listed(ToArray(coll)), coll)

Matching(coll, id) == {d \in coll : d.id = id.n}

\* Recipe.findById(id)
findById(id, coll) ==
  IF ~id.valid THEN Settled(Raised(CastError), coll)
  ELSE IF Matching(coll, id) = {} THEN Settled(Absent, coll)
  ELSE Settled(Resolved(CHOOSE d \in Matching(coll, id) : TRUE), coll)

ReplaceUpdate(d, data, t) ==
  [NewRecipe(data, d.id) EXCEPT !.createdAt = d.createdAt, !.updatedAt = t]

\* The $set a partial payload is cast to: schema setters run, validators do
\* not, and the timestamps option adds updatedAt.
ApplyUpdate(d, data, t) ==
  [d EXCEPT
     !.title = IF data.title = <<>> THEN @ ELSE TrimOpt(data.title),
     !.description = IF data.description = <<>> THEN @ ELSE TrimOpt(data.description),
     !.ingredients = IF data.ingredients = <<>> THEN @ ELSE data.ingredients[1],
     !.preparationTime = IF data.preparationTime = <<>> THEN @ ELSE data.preparationTime,
     !.portions = IF data.portions = <<>> THEN @ ELSE data.portions,
     !.isVegetarian = IF data.isVegetarian = <<>> THEN @ ELSE data.isVegetarian[1],
     !.updatedAt = t]

\* Recipe.findByIdAndUpdate(id, data, { new: true })
findByIdAndUpdate(id, data, coll, t) ==
  IF ~id.valid THEN Settled(Raised(CastError), coll)
  ELSE IF Matching(coll, id) = {} THEN Settled(Absent, coll)
  ELSE LET d == CHOOSE x \in Matching(coll, id) : TRUE
           u == ApplyUpdate(d, data, t)
       IN IF ~UniqueTitle(coll, u) THEN Settled(Raised(DuplicateKeyError), coll)
          ELSE Settled(Resolved(u), (coll \ {d}) \cup {u})

KeepOnDelete(coll, d) == coll

Remove(coll, d) == coll \ {d}

\* Recipe.findByIdAndDelete(id)
findByIdAndDelete(id, coll) ==
  IF ~id.valid THEN Settled(Raised(CastError), coll)
  ELSE IF Matching(coll, id) = {} THEN Settled(Absent, coll)
  ELSE LET d == CHOOSE x \in Matching(coll, id) : TRUE
       IN Settled(Resolved(d), Remove(coll, d))

\* ----------------------------------------------------------------- envelope
Omitted == [t |-> "undefined", docs |-> <<>>]
NullData == [t |-> "null", docs |-> <<>>]
DataOf(o) == [t |-> o.t, docs |-> o.docs]

OmittedError == [t |-> "undefined", details |-> Undef, statusCode |-> Undef]
NullError == [t |-> "null", details |-> Undef, statusCode |-> Undef]
ErrorObj(details, statusCode) ==
  [t |-> "object", details |-> details, statusCode |-> statusCode]

\* createQueryResponse: data and error default to null when left out.
createQueryResponse(success, message, data, error) ==
  [success |-> success,
   message |-> message,
   data |-> IF data.t = "undefined" THEN NullData ELSE data,
   error |-> IF error.t = "undefined" THEN NullError ELSE error]

NoResp == createQueryResponse(FALSE, "", Omitted, OmittedError)

Returned(e) == [pc |-> "returned", resp |-> e]
\* The async function's promise rejects: the exception reaches the caller.
Rejected == [pc |-> "rejected", resp |-> NoResp]

Success(message, o) ==
  Returned(createQueryResponse(TRUE, message, DataOf(o), OmittedError))

Failure(message, details, statusCode) ==
  Returned(createQueryResponse(FALSE, message, Omitted, ErrorObj(details, statusCode)))

NotFoundAs500(message, details) == Failure(message, Str(details), Num(500))

\* The `if (!recipe)` branch of the by-id operations.
NotFound(message, details) == Failure(message, Str(details), Num(404))

\* ------------------------------------------------- catch blocks, index.ts
\* errMsg = error instanceof Error ? error.message : <unknown>
\* statusCode = typeof error.code === "number" ? error.code : 500
\* Reading .code of null or undefined throws inside the catch block.
CatchTyped(e, message, unknown) ==
  IF e.kind = "nullish" THEN Rejected
  ELSE Failure(message,
               IF e.kind = "Error" THEN e.message ELSE Str(unknown),
               IF e.code.t = "number" THEN e.code ELSE Num(500))

\* ------------------------------------------------- catch blocks, part_001
\* details: error.message, statusCode: error.code || 500
CatchAny(e, message) ==
  IF e.kind = "nullish" THEN Rejected
  ELSE Failure(message, e.message, IF Truthy(e.code) THEN e.code ELSE Num(500))

\* details: error.message, statusCode: 400
CatchAs400(e, message) ==
  IF e.kind = "nullish" THEN Rejected
  ELSE Failure(message, e.message, Num(400))

\* --------------------------------------- the operations after their await
createRecipe_index(o) ==
  IF o.t = "raised"
  THEN CatchTyped(o.err, "Recipe creation failed", "Unknown error occurred")
  ELSE Success("Recipe created successfully", o)

createRecipe_part001(o) ==
  IF o.t = "raised" THEN CatchAny(o.err, "Recipe creation failed")
  ELSE Success("Recipe created successfully", o)

getRecipies_emptyIs404(o) ==
  IF o.t = "raised"
  THEN CatchTyped(o.err, "Failed to obtain recipies", "Unknown error occurred")
  ELSE IF Len(o.docs) = 0 THEN NotFound("Failed to obtain recipies", "No recipes")
  ELSE Success("Recipes obtained successfully", o)

getRecipies_index(o) ==
  IF o.t = "raised"
  THEN CatchTyped(o.err, "Failed to obtain recipies", "Unknown error occurred")
  ELSE Success("Recipes obtained successfully", o)

getRecipies_part001(o) ==
  IF o.t = "raised" THEN CatchAny(o.err, "Failed to fetch recipes")
  ELSE Success(IF Len(o.docs) # 0 THEN "Recipes found" ELSE "No recipes available", o)

getRecipeById_index(o) ==
  IF o.t = "raised"
  THEN CatchTyped(o.err, "Error searching for recipe", "Unknown error")
  ELSE IF o.t = "null"
  THEN NotFound("Recipe not found", "There is no document with that ID")
  ELSE Success("Recipe found successfully", o)

getRecipeById_part001(o) ==
  IF o.t = "raised" THEN CatchAs400(o.err, "Invalid recipe ID")
  ELSE IF o.t = "null" THEN NotFound("Recipe not found", "Invalid recipe ID")
  ELSE Success("Recipe found successfully", o)

updateRecipe_index(o) ==
  IF o.t = "raised"
  THEN CatchTyped(o.err, "Error at updating recipe", "Unknown error")
  ELSE IF o.t = "null" THEN NotFound("Recipe not found", "Id does not exist")
  ELSE Success("Recipe successfully updated", o)

updateRecipe_part001(o) ==
  IF o.t = "raised" THEN CatchAny(o.err, "Update failed")
  ELSE IF o.t = "null" THEN NotFound("Recipe not found", "Invalid recipe ID")
  ELSE Success("Recipe updated", o)

deleteRecipe_index(o) ==
  IF o.t = "raised" THEN CatchTyped(o.err, "Error deleting book", "Unknown error")
  ELSE IF o.t = "null"
  THEN NotFound("The recipe does not exist or has already been deleted",
                "Recipe not found")
  ELSE Success("Recipe successfully deleted", o)

deleteRecipe_part001(o) ==
  IF o.t = "raised" THEN CatchAny(o.err, "Deletion failed")
  ELSE IF o.t = "null" THEN NotFound("Recipe not found", "Invalid recipe ID")
  ELSE Success("Recipe deleted", o)

\* The version of an operation that runs.
createRecipe(o) ==
  IF impl = "index.ts" THEN createRecipe_index(o) ELSE createRecipe_part001(o)
getRecipies(o) ==
  IF impl = "index.ts" THEN getRecipies_index(o) ELSE getRecipies_part001(o)
getRecipeById(o) ==
  IF impl = "index.ts" THEN getRecipeById_index(o) ELSE getRecipeById_part001(o)
updateRecipe(o) ==
  IF impl = "index.ts" THEN updateRecipe_index(o) ELSE updateRecipe_part001(o)
deleteRecipe(o) ==
  IF impl = "index.ts" THEN deleteRecipe_index(o) ELSE deleteRecipe_part001(o)

\* ------------------------------------------------------------------ requests
Request(op, data, id) == [op |-> op, data |-> data, id |-> id]
NoRequest == Request("none", EmptyPayload, MalformedId)

\* Identifier strings a caller can pass: a malformed one, a well-formed one
\* no document ever had (0), and every ObjectId generated so far.
IdArgs == {MalformedId} \cup {ObjectId(k) : k \in 0..(nextId - 1)}

\* The awaited storage call either settles as the storage decides or rejects
\* with one of the values F, the collection untouched.
Settlements(s, F) == {s} \cup {Settled(Raised(f), collection) : f \in F}

Init ==
  /\ impl \in Impls
  /\ collection = {}
  /\ nextId = 1
  /\ now = 0
  /\ calls = 0
  /\ pc = [c \in Callers |-> "idle"]
  /\ req = [c \in Callers |-> NoRequest]
  /\ out = [c \in Callers |-> Pending]
  /\ resp = [c \in Callers |-> NoResp]
  /\ created = {}
  /\ modified = {}
  /\ deleted = {}

\* A caller invokes an operation: it runs up to its await.
Issue(c, r, budget) ==
  /\ pc[c] # "awaiting"
  /\ calls < budget
  /\ calls' = calls + 1
  /\ pc' = [pc EXCEPT ![c] = "awaiting"]
  /\ req' = [req EXCEPT ![c] = r]
  /\ out' = [out EXCEPT ![c] = Pending]
  /\ resp' = [resp EXCEPT ![c] = NoResp]
  /\ UNCHANGED <<impl, collection, now, created, modified, deleted>>

\* The awaited call settles as s and the operation runs to its end with r.
Finish(c, s, r) ==
  /\ collection' = s.coll
  /\ out' = [out EXCEPT ![c] = s.out]
  /\ pc' = [pc EXCEPT ![c] = r.pc]
  /\ resp' = [resp EXCEPT ![c] = r.resp]
  /\ now' = IF s.coll # collection /\ req[c].op # "deleteRecipe" THEN now + 1 ELSE now
  /\ UNCHANGED <<impl, nextId, calls, req>>

Awaiting(c, op) == pc[c] = "awaiting" /\ req[c].op = op

createRecipeCall(c, budget) ==
  \E data \in CreateInputs :
    /\ Issue(c, Request("createRecipe", data, ObjectId(nextId)), budget)
    /\ nextId' = nextId + 1

createRecipeAwait(c, F) ==
  /\ Awaiting(c, "createRecipe")
  /\ \E s \in Settlements(save(NewRecipe(req[c].data, req[c].id.n), collection, now + 1), F) :
       /\ Finish(c, s, createRecipe(s.out))
       /\ created' = IF s.out.t = "doc"
                     THEN created \cup {[id |-> req[c].id.n, data |-> req[c].data]}
                     ELSE created
  /\ UNCHANGED <<modified, deleted>>

getRecipiesCall(c, budget) ==
  /\ Issue(c, Request("getRecipies", EmptyPayload, MalformedId), budget)
  /\ UNCHANGED nextId

getRecipiesAwait(c, F) ==
  /\ Awaiting(c, "getRecipies")
  /\ \E s \in Settlements(find(collection), F) : Finish(c, s, getRecipies(s.out))
  /\ UNCHANGED <<created, modified, deleted>>

getRecipeByIdCall(c, budget) ==
  \E id \in IdArgs :
    /\ Issue(c, Request("getRecipeById", EmptyPayload, id), budget)
    /\ UNCHANGED nextId

getRecipeByIdAwait(c, F) ==
  /\ Awaiting(c, "getRecipeById")
  /\ \E s \in Settlements(findById(req[c].id, collection), F) :
       Finish(c, s, getRecipeById(s.out))
  /\ UNCHANGED <<created, modified, deleted>>

updateRecipeCall(c, budget) ==
  \E id \in IdArgs, data \in UpdateInputs :
    /\ Issue(c, Request("updateRecipe", data, id), budget)
    /\ UNCHANGED nextId

updateRecipeAwait(c, F) ==
  /\ Awaiting(c, "updateRecipe")
  /\ \E s \in Settlements(findByIdAndUpdate(req[c].id, req[c].data, collection, now + 1), F) :
       /\ Finish(c, s, updateRecipe(s.out))
       /\ modified' = IF s.out.t = "doc" THEN modified \cup {req[c].id.n} ELSE modified
  /\ UNCHANGED <<created, deleted>>

deleteRecipeCall(c, budget) ==
  \E id \in IdArgs :
    /\ Issue(c, Request("deleteRecipe", EmptyPayload, id), budget)
    /\ UNCHANGED nextId

deleteRecipeAwait(c, F) ==
  /\ Awaiting(c, "deleteRecipe")
  /\ \E s \in Settlements(findByIdAndDelete(req[c].id, collection), F) :
       /\ Finish(c, s, deleteRecipe(s.out))
       /\ deleted' = IF s.out.t = "doc" THEN deleted \cup {req[c].id.n} ELSE deleted
  /\ UNCHANGED <<created, modified>>

Step(c, budget, F) ==
  \/ createRecipeCall(c, budget)
  \/ createRecipeAwait(c, F)
  \/ getRecipiesCall(c, budget)
  \/ getRecipiesAwait(c, F)
  \/ getRecipeByIdCall(c, budget)
  \/ getRecipeByIdAwait(c, F)
  \/ updateRecipeCall(c, budget)
  \/ updateRecipeAwait(c, F)
  \/ deleteRecipeCall(c, budget)
  \/ deleteRecipeAwait(c, F)

\* Reliable storage: a call rejects only as the schema and the index decide.
Next == \E c \in Callers : Step(c, MaxCalls, {})

Spec == Init /\ [][Next]_vars

\* Unreliable storage: besides that, any awaited call may reject with a value
\* of any shape.  A run starts from an empty collection or from one that
\* already holds a recipe created earlier.
Seeded == Stamp(NewRecipe(Base(<<"a">>), 1), 1)

InitFaulty ==
  /\ impl \in Impls
  /\ \/ collection = {} /\ nextId = 1 /\ now = 0 /\ created = {}
     \/ /\ collection = {Seeded}
        /\ nextId = 2
        /\ now = 1
        /\ created = {[id |-> 1, data |-> Base(<<"a">>)]}
  /\ calls = 0
  /\ pc = [c \in Callers |-> "idle"]
  /\ req = [c \in Callers |-> NoRequest]
  /\ out = [c \in Callers |-> Pending]
  /\ resp = [c \in Callers |-> NoResp]
  /\ modified = {}
  /\ deleted = {}

NextFaulty == \E c \in Callers : Step(c, MaxFaultyCalls, Faults)

SpecFaulty == InitFaulty /\ [][NextFaulty]_vars

\* ------------------------------------------------------------ vocabulary
ByIdOps == {"getRecipeById", "updateRecipe", "deleteRecipe"}

\* The step in which caller c's operation ends.
Finishes(c) == pc[c] = "awaiting" /\ pc'[c] # "awaiting"

Fails(e, code) ==
  /\ ~e.success
  /\ e.error.t = "object"
  /\ e.error.statusCode = Num(code)

Ids(coll) == {d.id : d \in coll}
DocOf(coll, k) == CHOOSE d \in coll : d.id = k
Others(coll, k) == {d \in coll : d.id # k}

\* ---------------------------------------------------------------- claims

\* C1: every envelope an operation returns is well formed: success = true
\* implies error is null; success = false implies data is null and error is
\* an object whose details is a string and whose statusCode is a number.
C1_EnvelopeWellFormed ==
  \A c \in Callers :
    pc[c] = "returned" =>
      /\ resp[c].success => resp[c].error.t = "null"
      /\ ~resp[c].success =>
           /\ resp[c].data.t = "null"
           /\ resp[c].error.t = "object"
           /\ resp[c].error.details.t = "string"
           /\ resp[c].error.statusCode.t = "number"

\* C2: no operation lets an exception escape: whatever the storage call
\* throws, the operation ends by returning an envelope.
C2_NeverRejects == \A c \in Callers : pc[c] # "rejected"

\* C3 (state part): no two stored recipes have the same trimmed title.
TitlesUnique ==
  \A d, e \in collection : d.id # e.id => TrimOpt(d.title) # TrimOpt(e.title)

\* C3 (step part): a createRecipe whose trimmed title is held by a stored
\* recipe when its save settles returns success = false and leaves the
\* collection as it was.  This covers two creates of one title in flight
\* together: the one that settles second meets the first one's document.
DuplicateCreateFails ==
  \A c \in Callers :
    ( /\ Finishes(c)
      /\ req[c].op = "createRecipe"
      /\ \E d \in collection : d.title = TrimOpt(req[c].data.title) )
    => /\ pc'[c] = "returned"
       /\ ~resp'[c].success
       /\ collection' = collection

\* C3: under every interleaving of create, update and delete calls the stored
\* titles stay pairwise distinct, and a create of a title already stored
\* fails without touching the collection.
C3_UniqueTitles == []TitlesUnique /\ [][DuplicateCreateFails]_vars

\* C3 witness: two creates of the same trimmed title raced.  Caller b's
\* document id was generated before caller a's, so b was called first; b
\* failed on the duplicate key of a's stored document, so b settled last.
C3_Witness ==
  \E a, b \in Callers :
    /\ a # b
    /\ pc[a] = "returned" /\ pc[b] = "returned"
    /\ req[a].op = "createRecipe" /\ req[b].op = "createRecipe"
    /\ TrimOpt(req[a].data.title) = TrimOpt(req[b].data.title)
    /\ req[a].data.title # req[b].data.title
    /\ req[b].id.n < req[a].id.n
    /\ resp[a].success
    /\ ~resp[b].success /\ out[b].err = DuplicateKeyError
    /\ Ids(collection) = {req[a].id.n}

\* C4: getRecipeById, updateRecipe and deleteRecipe called with a well-formed
\* id that no stored document has return success = false with statusCode 404,
\* raise nothing and leave the collection unchanged.
C4_AbsentIdIs404 ==
  [][\A c \in Callers :
       ( /\ Finishes(c)
         /\ req[c].op \in ByIdOps
         /\ req[c].id.valid
         /\ req[c].id.n \notin Ids(collection) )
       => /\ pc'[c] = "returned"
          /\ Fails(resp'[c], 404)
          /\ resp'[c].data.t = "null"
          /\ collection' = collection]_vars

\* C4 witness: a deleteRecipe of an id that an earlier deleteRecipe removed
\* found nothing and returned the 404 envelope.
C4_Witness ==
  \E a \in Callers :
    /\ pc[a] = "returned"
    /\ req[a].op = "deleteRecipe" /\ req[a].id.valid /\ req[a].id.n \in deleted
    /\ out[a].t = "null" /\ Fails(resp[a], 404)

\* C5: getRecipeById, updateRecipe and deleteRecipe called with a malformed
\* id return success = false with statusCode 400.
C5_MalformedIdIs400 ==
  \A c \in Callers :
    ( /\ pc[c] = "returned"
      /\ req[c].op \in ByIdOps
      /\ ~req[c].id.valid
      /\ out[c].err = CastError )
    => Fails(resp[c], 400)

\* C6: a createRecipe that fails on a duplicate title reports statusCode 409,
\* and one that fails entity validation reports statusCode 400.
C6_CreateFailureCodes ==
  \A c \in Callers :
    (pc[c] = "returned" /\ req[c].op = "createRecipe") =>
      /\ out[c].err = DuplicateKeyError => Fails(resp[c], 409)
      /\ out[c].err = ValidationError => Fails(resp[c], 400)

\* The payload a recipe was created from, for an id in the created history.
PayloadOf(k) == (CHOOSE h \in created : h.id = k).data
CreatedIds == {h.id : h \in created}

\* A getRecipeById of a recipe that createRecipe stored and that no update or
\* delete has touched since ends in this step.
ReadsBack(c) ==
  /\ Finishes(c)
  /\ req[c].op = "getRecipeById"
  /\ req[c].id.valid
  /\ req[c].id.n \in CreatedIds \ (modified \cup deleted)

\* The fields of p that need no setter, as the document d holds them.
PlainFieldsEqual(d, p) ==
  /\ p.ingredients # <<>> => d.ingredients = p.ingredients[1]
  /\ p.preparationTime # <<>> => d.preparationTime = p.preparationTime
  /\ p.portions # <<>> => d.portions = p.portions
  /\ d.isVegetarian = IF p.isVegetarian = <<>> THEN TRUE ELSE p.isVegetarian[1]

\* C7 as stated: create then getRecipeById returns success = true with a
\* recipe equal to the payload on every supplied field, strings included,
\* and isVegetarian = true when the payload omitted it.
C7_ReadBackVerbatim ==
  [][\A c \in Callers :
       ReadsBack(c) =>
         /\ pc'[c] = "returned" /\ resp'[c].success /\ resp'[c].data.t = "doc"
         /\ LET d == resp'[c].data.docs[1]
                p == PayloadOf(req[c].id.n)
            IN /\ d.id = req[c].id.n
               /\ PlainFieldsEqual(d, p)
               /\ d.title = p.title
               /\ p.description # <<>> => d.description = p.description]_vars

\* C7 amended: the same, with title and description equal to the payload's
\* after surrounding whitespace is removed.
C7_ReadBackTrimmed ==
  [][\A c \in Callers :
       ReadsBack(c) =>
         /\ pc'[c] = "returned" /\ resp'[c].success /\ resp'[c].data.t = "doc"
         /\ LET d == resp'[c].data.docs[1]
                p == PayloadOf(req[c].id.n)
            IN /\ d.id = req[c].id.n
               /\ PlainFieldsEqual(d, p)
               /\ d.title = TrimOpt(p.title)
               /\ d.description = TrimOpt(p.description)]_vars

\* C7 witness: a recipe created with a padded title and description and no
\* isVegetarian was read back trimmed and vegetarian.
C7_Witness ==
  \E c \in Callers :
    /\ pc[c] = "returned" /\ req[c].op = "getRecipeById" /\ resp[c].success
    /\ req[c].id.n \in CreatedIds \ (modified \cup deleted)
    /\ LET d == resp[c].data.docs[1]
           p == PayloadOf(req[c].id.n)
       IN /\ p.isVegetarian = <<>> /\ d.isVegetarian
          /\ p.title # d.title /\ p.description # d.description
          /\ Len(d.ingredients) = 1

\* An updateRecipe that matched a document ends in this step.
Updates(c) ==
  /\ Finishes(c)
  /\ req[c].op = "updateRecipe"
  /\ out'[c].t = "doc"

\* C8: a successful updateRecipe(id, partial) leaves every field that partial
\* omits as it was, keeps the id, leaves every other recipe unchanged and
\* returns the document as stored after the update; with an empty partial
\* nothing but updatedAt differs.
C8_PartialUpdate ==
  [][\A c \in Callers :
       Updates(c) =>
         LET k == req[c].id.n
             p == req[c].data
             d == DocOf(collection, k)
             u == DocOf(collection', k)
         IN /\ k \in Ids(collection) /\ k \in Ids(collection')
            /\ Others(collection', k) = Others(collection, k)
            /\ Cardinality(collection') = Cardinality(collection)
            /\ p.title = <<>> => u.title = d.title
            /\ p.description = <<>> => u.description = d.description
            /\ p.ingredients = <<>> => u.ingredients = d.ingredients
            /\ p.preparationTime = <<>> => u.preparationTime = d.preparationTime
            /\ p.portions = <<>> => u.portions = d.portions
            /\ p.isVegetarian = <<>> => u.isVegetarian = d.isVegetarian
            /\ u.createdAt = d.createdAt
            /\ p = EmptyPayload => u = [d EXCEPT !.updatedAt = u.updatedAt]
            /\ pc'[c] = "returned" /\ resp'[c].success
            /\ resp'[c].data.t = "doc" /\ resp'[c].data.docs = <<u>>]_vars

\* C8 witness: with two recipes stored, an updateRecipe with an empty partial
\* succeeded and returned the recipe with a later updatedAt.
C8_Witness ==
  \E c \in Callers :
    /\ pc[c] = "returned" /\ req[c].op = "updateRecipe" /\ resp[c].success
    /\ req[c].data = EmptyPayload
    /\ Cardinality(collection) = 2
    /\ resp[c].data.docs[1] \in collection
    /\ resp[c].data.docs[1].updatedAt > resp[c].data.docs[1].createdAt

\* C9: every stored recipe satisfies the entity constraints: a non-empty
\* title, a positive preparationTime, positive portions, and ingredients
\* whose name and amount are non-empty.
C9_StoredRecipesValid ==
  \A d \in collection :
    /\ RequiredString(d.title)
    /\ d.preparationTime # <<>> /\ d.preparationTime[1] > 0
    /\ d.portions # <<>> /\ d.portions[1] > 0
    /\ \A i \in 1..Len(d.ingredients) :
         /\ RequiredText(d.ingredients[i].name)
         /\ RequiredText(d.ingredients[i].amount)

\* C10 (state part): a deleted recipe is not in the collection, and its id
\* is one the driver has already generated and so never generates again.
DeletedStayGone ==
  \A k \in deleted : k \notin Ids(collection) /\ k < nextId

\* C10 (step part): a successful deleteRecipe returns the recipe it removed
\* and removes nothing else; a by-id operation on a deleted id returns 404;
\* a createRecipe never takes a deleted id.
DeleteSteps ==
  \A c \in Callers :
    /\ (Finishes(c) /\ req[c].op = "deleteRecipe" /\ out'[c].t = "doc") =>
         /\ pc'[c] = "returned" /\ resp'[c].success
         /\ resp'[c].data.t = "doc"
         /\ resp'[c].data.docs[1].id = req[c].id.n
         /\ resp'[c].data.docs[1] \in collection
         /\ collection' = collection \ {resp'[c].data.docs[1]}
         /\ req[c].id.n \notin Ids(collection')
    /\ ( /\ Finishes(c)
         /\ req[c].op \in ByIdOps
         /\ req[c].id.valid
         /\ req[c].id.n \in deleted )
       => pc'[c] = "returned" /\ Fails(resp'[c], 404)
    /\ (pc[c] # "awaiting" /\ pc'[c] = "awaiting" /\ req'[c].op = "createRecipe")
       => req'[c].id.n \notin deleted

\* C10: once deleteRecipe(id) has succeeded the recipe is gone for good.
C10_DeleteIsFinal == []DeletedStayGone /\ [][DeleteSteps]_vars

\* C10 witness: caller a's deleteRecipe removed a recipe and returned it, and
\* caller b's later getRecipeById of the same id returned the 404 envelope.
C10_Witness ==
  \E a, b \in Callers :
    /\ pc[a] = "returned" /\ req[a].op = "deleteRecipe" /\ resp[a].success
    /\ resp[a].data.docs[1].id = req[a].id.n
    /\ req[a].id.n \in deleted
    /\ pc[b] = "returned" /\ req[b].op = "getRecipeById" /\ req[b].id = req[a].id
    /\ out[b].t = "null" /\ Fails(resp[b], 404)
    /\ collection = {}

\* The documents of an array, as a set.
Elements(ds) == {ds[i] : i \in 1..Len(ds)}

\* C11: getRecipies never modifies the collection and, when the storage call
\* does not raise, returns success = true with exactly the stored recipes as
\* data, each once; on an empty collection that is success = true with an
\* empty array, never a failure envelope.
C11_ListReturnsAll ==
  [][\A c \in Callers :
       (Finishes(c) /\ req[c].op = "getRecipies") =>
         /\ collection' = collection
         /\ out'[c].t # "raised" =>
              /\ pc'[c] = "returned" /\ resp'[c].success
              /\ resp'[c].error.t = "null"
              /\ resp'[c].data.t = "list"
              /\ Elements(resp'[c].data.docs) = collection
              /\ Len(resp'[c].data.docs) = Cardinality(collection)]_vars

\* C11 witness: caller a listed the empty collection and got success with an
\* empty array; caller b then listed the one recipe stored since.
C11_Witness ==
  \E a, b \in Callers :
    /\ pc[a] = "returned" /\ req[a].op = "getRecipies"
    /\ resp[a].success /\ resp[a].data.t = "list" /\ resp[a].data.docs = <<>>
    /\ pc[b] = "returned" /\ req[b].op = "getRecipies"
    /\ resp[b].success /\ Len(resp[b].data.docs) = 1
    /\ Elements(resp[b].data.docs) = collection

\* C12: in the failure path for a raised storage error, statusCode is the
\* error's code when that is a number and 500 otherwise, and details is a
\* string.
C12_StatusFromCode ==
  \A c \in Callers :
    (pc[c] = "returned" /\ out[c].t = "raised") =>
      /\ ~resp[c].success
      /\ resp[c].error.t = "object"
      /\ resp[c].error.statusCode =
           IF out[c].err.code.t = "number" THEN out[c].err.code ELSE Num(500)
      /\ resp[c].error.details.t = "string"

====
